---- MODULE Spec2Model ----
(***************************************************************************)
(* Model of the three pybind11 binding shims of futures_quant_framework:   *)
(*   extern_libs/exanic_pybind   (ExaNIC kernel-bypass receive API)        *)
(*   extern_libs/ctp_pybind      (CTP market-data API)                     *)
(*   extern_libs/nsq_pybind      (NSQ market-data API)                     *)
(* The vendor SDKs and the CPython capsule API are the environment: their  *)
(* calls are recorded, their results are chosen nondeterministically       *)
(* within their documented contracts.                                      *)
(***************************************************************************)
EXTENDS Integers, Sequences, FiniteSets, TLC

(***************************************************************************)
(* Bounds of the model.                                                    *)
(***************************************************************************)
\* Python capsule objects the script may hold at once.
MaxCapsules == 2
\* SDK release calls recorded per acquired pointer.
MaxReleases == 2
\* Largest max_size argument the script passes to receive_frame.
MaxSize == 2
\* Longest frame the NIC delivers.
MaxFrame == 2

\* exanic_pybind.cpp:56  max_size defaults to 2048 when 0 is passed.
DefaultMaxSize == 2048

NULL == 0
None == 0

\* exanic_pybind.cpp:27-28
CAPSULE_EXANIC == "exanic_t"
CAPSULE_EXANIC_RX == "exanic_rx_t"

VARIABLES
    capsules,   \* ExaNIC: Python capsule objects, <<[name, pointer]>>
    sdkObj,     \* ExaNIC: objects the SDK handed out, index = pointer value
    exLast,     \* ExaNIC: what the last shim call did
    shim,       \* CTP/NSQ: the binding module the script imported
    wrapper,    \* CTP/NSQ: the PyMdApi / PyNsqApi object, [state, api]
    sdk,        \* CTP/NSQ: the vendor session behind the wrapper
    spiObj,     \* CTP/NSQ: the callback object, [state, overrides]
    sessLast,   \* CTP/NSQ: what the last call on the wrapper did
    issued,     \* callbacks the SDK invoked on the trampoline, in order
    toScript,   \* callbacks that reached a script-side override, in order
    toBase,     \* callbacks that fell through to the vendor base class
    req,        \* the login request record, [field |-> char buffer]
    fldLast     \* what the last property access on the record did

exVars == <<capsules, sdkObj, exLast>>
sessVars == <<wrapper, sdk, spiObj, sessLast>>
logVars == <<issued, toScript, toBase>>
fldVars == <<req, fldLast>>
vars == <<capsules, sdkObj, exLast, shim, wrapper, sdk, spiObj, sessLast,
          issued, toScript, toBase, req, fldLast>>

(***************************************************************************)
(* ExaNIC shim                                                             *)
(***************************************************************************)
Bytes == {1, 2}

RECURSIVE SeqsUpTo(_, _)
SeqsUpTo(S, n) ==
    IF n = 0 THEN {<<>>}
    ELSE LET shorter == SeqsUpTo(S, n - 1)
         IN shorter \cup {Append(s, x) : s \in {t \in shorter : Len(t) = n - 1}, x \in S}

Min(a, b) == IF a < b THEN a ELSE b

\* What a call that has not happened looks like.
NoCall ==
    [op |-> "none", arg |-> None, argValid |-> FALSE, sdkCalls |-> 0,
     passed |-> NULL, passedKind |-> "", passedReleases |-> 0,
     sdkRet |-> 0, outcome |-> "none", retCap |-> None, retBytes |-> <<>>,
     maxSize |-> 0, bufSize |-> 0, bufData |-> <<>>]

\* A Python object the script can pass as a handle: None or a capsule.
PyObjects == {None} \cup DOMAIN capsules

\* CPython: a capsule is valid when it is a capsule, its pointer is not NULL
\* and its name equals the given name.
PyCapsule_IsValid(o, name) ==
    /\ o \in DOMAIN capsules
    /\ capsules[o].pointer # NULL
    /\ capsules[o].name = name

PyCapsule_GetPointer(o, name) == capsules[o].pointer

\* CPython: PyCapsule_SetPointer refuses a NULL pointer: it sets ValueError,
\* returns -1 and leaves the capsule as it was.
PyCapsule_SetPointer(o, pointer) ==
    IF pointer = NULL
    THEN [ok |-> FALSE, caps |-> capsules]
    ELSE [ok |-> TRUE, caps |-> [capsules EXCEPT ![o].pointer = pointer]]

\* py::capsule(ptr, name): a new capsule object, no destructor.
NewCapsule(ptr, name) == Append(capsules, [name |-> name, pointer |-> ptr])

\* The SDK hands out a fresh object of the given kind; its pointer is its index.
SdkAcquire(kind) == Append(sdkObj, [kind |-> kind, releases |-> 0])

\* The SDK's release function runs on pointer p.
SdkRelease(p) == [sdkObj EXCEPT ![p].releases = @ + 1]

\* m.def("acquire_handle", ...)
acquire_handle ==
    /\ Len(capsules) < MaxCapsules
    /\ UNCHANGED <<shim, sessVars, logVars, fldVars>>
    /\ \E sdkOk \in BOOLEAN :
        IF ~sdkOk
        THEN /\ exLast' = [NoCall EXCEPT !.op = "acquire_handle", !.sdkCalls = 1,
                                         !.sdkRet = NULL, !.outcome = "none"]
             /\ UNCHANGED <<capsules, sdkObj>>
        ELSE LET nic == Len(sdkObj) + 1 IN
             /\ sdkObj' = SdkAcquire(CAPSULE_EXANIC)
             /\ capsules' = NewCapsule(nic, CAPSULE_EXANIC)
             /\ exLast' = [NoCall EXCEPT !.op = "acquire_handle", !.sdkCalls = 1,
                                         !.sdkRet = nic, !.outcome = "capsule",
                                         !.retCap = Len(capsules) + 1]

\* m.def("acquire_rx_buffer", ...)
acquire_rx_buffer ==
    /\ Len(capsules) < MaxCapsules
    /\ UNCHANGED <<shim, sessVars, logVars, fldVars>>
    /\ \E handle_cap \in PyObjects, sdkOk \in BOOLEAN :
        IF ~PyCapsule_IsValid(handle_cap, CAPSULE_EXANIC)
        THEN /\ exLast' = [NoCall EXCEPT !.op = "acquire_rx_buffer", !.arg = handle_cap,
                                         !.outcome = "raise"]
             /\ UNCHANGED <<capsules, sdkObj>>
        ELSE LET nic == PyCapsule_GetPointer(handle_cap, CAPSULE_EXANIC)
                 call == [NoCall EXCEPT !.op = "acquire_rx_buffer", !.arg = handle_cap,
                                        !.argValid = TRUE, !.sdkCalls = 1,
                                        !.passed = nic,
                                        !.passedKind = sdkObj[nic].kind,
                                        !.passedReleases = sdkObj[nic].releases]
             IN IF ~sdkOk
                THEN /\ exLast' = [call EXCEPT !.sdkRet = NULL, !.outcome = "none"]
                     /\ UNCHANGED <<capsules, sdkObj>>
                ELSE LET rx == Len(sdkObj) + 1 IN
                     /\ sdkObj' = SdkAcquire(CAPSULE_EXANIC_RX)
                     /\ capsules' = NewCapsule(rx, CAPSULE_EXANIC_RX)
                     /\ exLast' = [call EXCEPT !.sdkRet = rx, !.outcome = "capsule",
                                               !.retCap = Len(capsules) + 1]

\* receive_frame: if (max_size == 0) max_size = 2048;
EffectiveMaxSize_NoDefault(max_size) == max_size
EffectiveMaxSize(max_size) == IF max_size = 0 THEN DefaultMaxSize ELSE max_size

\* Byte i of std::string buf(max_size, '\0') after the SDK wrote `data` at its start.
BufByte(data, i) == IF i <= Len(data) THEN data[i] ELSE 0

\* receive_frame: py::bytes(buf.data(), n) for n > 0, py::bytes("") otherwise.
FrameBytes(data, n) ==
    IF n <= 0 THEN <<>> ELSE [i \in 1..n |-> BufByte(data, i)]

\* exanic_receive_frame on a live RX buffer: 0 when no frame is waiting, the
\* frame's length when it fits in the buffer, a negative code on an error or
\* when the frame is longer than the buffer (the part that fits is written).
SdkReceive(size) ==
    {[n |-> 0, data |-> <<>>]}
    \cup {[n |-> IF Len(f) <= size THEN Len(f) ELSE -1,
           data |-> SubSeq(f, 1, Min(Len(f), size))] :
             f \in SeqsUpTo(Bytes, MaxFrame) \ {<<>>}}
    \cup {[n |-> -2, data |-> <<>>]}

\* m.def("receive_frame", ...)
receive_frame ==
    \E rx_cap \in PyObjects, max_size \in 0..MaxSize :
        /\ UNCHANGED <<capsules, sdkObj, shim, sessVars, logVars, fldVars>>
        /\ IF ~PyCapsule_IsValid(rx_cap, CAPSULE_EXANIC_RX)
           THEN exLast' = [NoCall EXCEPT !.op = "receive_frame", !.arg = rx_cap,
                                         !.maxSize = max_size, !.outcome = "raise"]
           ELSE LET rx == PyCapsule_GetPointer(rx_cap, CAPSULE_EXANIC_RX)
                    size == EffectiveMaxSize(max_size)
                    call == [NoCall EXCEPT !.op = "receive_frame", !.arg = rx_cap,
                                           !.argValid = TRUE, !.sdkCalls = 1,
                                           !.maxSize = max_size, !.bufSize = size,
                                           !.passed = rx,
                                           !.passedKind = sdkObj[rx].kind,
                                           !.passedReleases = sdkObj[rx].releases]
                IN \/ \E r \in SdkReceive(size) :
                        exLast' = [call EXCEPT !.sdkRet = r.n, !.bufData = r.data,
                                               !.outcome = "bytes",
                                               !.retBytes = FrameBytes(r.data, r.n)]
                   \* a released RX buffer is freed memory: the SDK reading it may
                   \* also crash the process
                   \/ /\ sdkObj[rx].releases > 0
                      /\ exLast' = [call EXCEPT !.outcome = "crash"]

\* release_rx_buffer / release_handle: the capsule is cleared after the SDK call.
ClearCapsule(cap) == PyCapsule_SetPointer(cap, NULL)

\* Shared body of the two release lambdas.
Release(op, name, cap) ==
    /\ UNCHANGED <<shim, sessVars, logVars, fldVars>>
    /\  IF ~PyCapsule_IsValid(cap, name)
        THEN /\ exLast' = [NoCall EXCEPT !.op = op, !.arg = cap, !.outcome = "ok"]
             /\ UNCHANGED <<capsules, sdkObj>>
        ELSE LET p == PyCapsule_GetPointer(cap, name)
                 set == ClearCapsule(cap)
             IN /\ sdkObj[p].releases < MaxReleases
                /\ sdkObj' = SdkRelease(p)
                /\ capsules' = set.caps
                /\ exLast' = [NoCall EXCEPT !.op = op, !.arg = cap, !.argValid = TRUE,
                                            !.sdkCalls = 1, !.passed = p,
                                            !.passedKind = sdkObj[p].kind,
                                            !.passedReleases = sdkObj[p].releases,
                                            \* a pending Python error on return
                                            !.outcome = IF set.ok THEN "ok" ELSE "raise"]

\* m.def("release_rx_buffer", ...)
release_rx_buffer ==
    \E rx_cap \in PyObjects : Release("release_rx_buffer", CAPSULE_EXANIC_RX, rx_cap)

\* m.def("release_handle", ...)
release_handle ==
    \E handle_cap \in PyObjects : Release("release_handle", CAPSULE_EXANIC, handle_cap)

(***************************************************************************)
(* Strings: a script string is a sequence of characters that may hold the  *)
(* NUL character; the shims pass v.c_str() to the C string functions.      *)
(***************************************************************************)
NUL == 0
Chars == {NUL, 1}

\* Size, in the model, of every fixed-size char field of a vendor record.
FieldSize == 2

\* Script strings long enough to overflow a field.
Strings == SeqsUpTo(Chars, FieldSize + 1)

\* v.c_str() read as a C string: the characters before the first NUL.
RECURSIVE CStr(_)
CStr(v) ==
    IF v = <<>> \/ Head(v) = NUL THEN <<>> ELSE <<Head(v)>> \o CStr(Tail(v))

\* std::memset(dest, 0, n)
Memset0(dest, n) == [i \in 1..Len(dest) |-> IF i <= n THEN NUL ELSE dest[i]]

\* strncpy(dest, src.c_str(), n): exactly n bytes are written, the C string
\* of src and then NULs; no NUL is written when the C string has n or more
\* characters.
Strncpy(dest, src, n) ==
    [i \in 1..Len(dest) |->
        IF i > n THEN dest[i]
        ELSE IF i <= Len(CStr(src)) THEN CStr(src)[i] ELSE NUL]

\* nsq_pybind.cpp copy_cstr
copy_cstr_NoRoomForNul(dest, dest_size, src) ==
    Strncpy(Memset0(dest, dest_size), src, dest_size)
copy_cstr(dest, dest_size, src) ==
    Strncpy(Memset0(dest, dest_size), src, dest_size - 1)

\* A char field of FieldSize bytes, zero-initialised (T{} / new T()).
ZeroField == [i \in 1..FieldSize |-> NUL]

(***************************************************************************)
(* CTP and NSQ session wrappers (PyMdApi, PyNsqApi)                        *)
(***************************************************************************)
Shims == {"ctp", "nsq"}

\* Public member functions of the wrapper classes.
Methods(k) ==
    IF k = "ctp"
    THEN {"RegisterSpi", "RegisterFront", "Init", "Join", "ReqUserLogin",
          "SubscribeMarketData", "GetApiVersion"}
    ELSE {"RegisterSpi", "RegisterFront", "Init", "ReqUserLogin", "GetApiErrorMsg",
          "GetApiVersion", "ReqFutuDepthMarketDataSubscribe", "SubscribeMarket"}

\* The .def(...) lists of py::class_<PyMdApi> and py::class_<PyNsqApi>.
Bound_InitForgotten(k) ==
    IF k = "ctp"
    THEN {"__init__", "RegisterSpi", "RegisterFront", "ReqUserLogin",
          "SubscribeMarketData", "GetApiVersion"}
    ELSE {"__init__", "RegisterSpi", "RegisterFront", "ReqUserLogin",
          "ReqFutuDepthMarketDataSubscribe", "SubscribeMarket", "GetApiErrorMsg",
          "GetApiVersion"}
Bound(k) ==
    IF k = "ctp"
    THEN {"__init__", "RegisterSpi", "RegisterFront", "Init", "ReqUserLogin",
          "SubscribeMarketData", "GetApiVersion"}
    ELSE {"__init__", "RegisterSpi", "RegisterFront", "Init", "ReqUserLogin",
          "ReqFutuDepthMarketDataSubscribe", "SubscribeMarket", "GetApiErrorMsg",
          "GetApiVersion"}

\* Return type of each wrapper method: void, int, or a string.
RetKind(k, m) ==
    IF m = "RegisterSpi" THEN "None"
    ELSE IF m \in {"GetApiErrorMsg", "GetApiVersion"} THEN "str"
    ELSE IF k = "ctp" /\ m \in {"RegisterFront", "Init"} THEN "None"
    ELSE "int"

\* What a wrapper method does with its session pointer: `if (api) api->m(..)`
\* or `return api ? api->m(..) : -1`; GetApiVersion is the vendor's static
\* function and reads no session pointer.
VendorName(k, m) ==
    IF m = "SubscribeMarket" THEN "ReqFutuDepthMarketDataSubscribe"
    ELSE IF m = "GetApiVersion" /\ k = "nsq" THEN "GetNsqApiVersion"
    ELSE m

PyApiCall_NoNullCheck(api, k, m) == [vendor |-> VendorName(k, m), fail |-> 0]
PyApiCall(api, k, m) ==
    IF m = "GetApiVersion" \/ api # NULL
    THEN [vendor |-> VendorName(k, m), fail |-> 0]
    ELSE [vendor |-> "", fail |-> IF RetKind(k, m) = "int" THEN -1 ELSE 0]

\* ~PyMdApi / ~PyNsqApi: if (api) { api->Release(); api = nullptr; }
Destructor_NoRelease(api) == [release |-> FALSE, api |-> NULL]
Destructor(api) ==
    IF api # NULL THEN [release |-> TRUE, api |-> NULL]
    ELSE [release |-> FALSE, api |-> api]

NoWrapper == [state |-> "absent", api |-> NULL]
NoSession ==
    [creates |-> 0, exists |-> FALSE, releases |-> 0, afterRelease |-> 0,
     spi |-> "none", front |-> FALSE, init |-> FALSE, login |-> FALSE, sub |-> FALSE]
NoSpi == [state |-> "absent", overrides |-> {}]
NoSessCall ==
    [op |-> "none", via |-> "", outcome |-> "", apiNull |-> FALSE, vendor |-> "",
     retKind |-> "None", ret |-> 0, rc |-> 0, nCount |-> 0, reqs |-> <<>>,
     arg |-> <<>>, before |-> NoWrapper]

\* The vendor session object runs method m.
VendorRuns(s, m, rc, spi) ==
    LET t == IF s.releases > 0 THEN [s EXCEPT !.afterRelease = @ + 1] ELSE s
    IN CASE m = "RegisterSpi" -> [t EXCEPT !.spi = spi]
         [] m = "RegisterFront" -> [t EXCEPT !.front = TRUE]
         [] m = "Init" -> [t EXCEPT !.init = TRUE]
         [] m = "ReqUserLogin" -> [t EXCEPT !.login = @ \/ rc = 0]
         [] m \in {"SubscribeMarketData", "ReqFutuDepthMarketDataSubscribe"} ->
                [t EXCEPT !.sub = @ \/ rc = 0]
         [] OTHER -> t

\* A call of wrapper method m: by the script through the binding (`via` is
\* "script": an unbound name raises AttributeError) or by a C++ caller.
\* rc is what the vendor returns if it is reached.
Call(m, via, rc, spi, nCount, reqs, arg) ==
    LET c == PyApiCall(wrapper.api, shim, m)
        call == [NoSessCall EXCEPT !.op = m, !.via = via, !.arg = arg,
                                   !.apiNull = (wrapper.api = NULL),
                                   !.before = wrapper]
    IN /\ wrapper.state = "alive"
       /\ m \in Methods(shim)
       /\ UNCHANGED <<capsules, sdkObj, exLast, shim, wrapper, spiObj, logVars, fldVars>>
       /\ IF via = "script" /\ m \notin Bound(shim)
          THEN /\ sessLast' = [call EXCEPT !.outcome = "AttributeError"]
               /\ UNCHANGED sdk
          ELSE IF c.vendor = ""
          THEN /\ sessLast' = [call EXCEPT !.outcome = "returned",
                                           !.retKind = RetKind(shim, m), !.ret = c.fail]
               /\ UNCHANGED sdk
          ELSE /\ sessLast' = [call EXCEPT !.outcome = "returned", !.vendor = c.vendor,
                                           !.retKind = RetKind(shim, m),
                                           !.ret = IF RetKind(shim, m) = "None" THEN 0 ELSE rc,
                                           !.rc = rc, !.nCount = nCount, !.reqs = reqs]
               /\ sdk' = IF m = "GetApiVersion" THEN sdk
                         ELSE VendorRuns(sdk, c.vendor, rc, spi)

\* Vendor return codes.
ReturnCodes == {-1, 0}

\* PyMdApi(flow_path) / PyNsqApi(flow_path, sdk_cfg_file_path): one factory call.
Construct ==
    /\ wrapper.state = "absent"
    /\ \E created \in BOOLEAN, cfgEmpty \in BOOLEAN :
        /\ wrapper' = [state |-> "alive", api |-> IF created THEN 1 ELSE NULL]
        /\ sdk' = [sdk EXCEPT !.creates = @ + 1, !.exists = created]
        /\ sessLast' = [NoSessCall EXCEPT
              !.op = "__init__", !.via = "script", !.outcome = "returned",
              !.vendor = IF shim = "ctp" THEN "CreateFtdcMdApi"
                         ELSE IF cfgEmpty THEN "NewNsqApi" ELSE "NewNsqApiExt",
              !.before = wrapper]
    /\ UNCHANGED <<capsules, sdkObj, exLast, shim, spiObj, logVars, fldVars>>

\* The script drops its last reference to the wrapper: the destructor runs.
Destroy ==
    /\ wrapper.state = "alive"
    /\ LET d == Destructor(wrapper.api) IN
        /\ wrapper' = [state |-> "destroyed", api |-> d.api]
        /\ sdk' = IF d.release THEN [sdk EXCEPT !.releases = @ + 1] ELSE sdk
        /\ sessLast' = [NoSessCall EXCEPT
              !.op = "__del__", !.via = "gc", !.outcome = "returned",
              !.apiNull = (wrapper.api = NULL),
              !.vendor = IF ~d.release THEN ""
                         ELSE IF shim = "ctp" THEN "Release" ELSE "ReleaseApi",
              !.before = wrapper]
    /\ UNCHANGED <<capsules, sdkObj, exLast, shim, spiObj, logVars, fldVars>>

\* The spi argument of RegisterSpi: None (a null pointer) or the live object.
SpiArgs == {"null"} \cup (IF spiObj.state = "alive" THEN {"obj"} ELSE {})

RegisterSpi ==
    \E spi \in SpiArgs : Call("RegisterSpi", "script", 0, spi, 0, <<>>, <<>>)

RegisterFront ==
    /\ wrapper.state = "alive"
    /\ \E rc \in ReturnCodes : Call("RegisterFront", "script", rc, "", 0, <<>>, <<>>)

ApiInit ==
    /\ wrapper.state = "alive"
    /\ \E rc \in ReturnCodes : Call("Init", "script", rc, "", 0, <<>>, <<>>)

\* PyMdApi::Join is a public member the module does not bind: only a C++
\* caller of the class reaches it.
Join ==
    /\ shim = "ctp"
    /\ \E rc \in ReturnCodes : Call("Join", "c++", rc, "", 0, <<>>, <<>>)

ReqUserLogin ==
    /\ wrapper.state = "alive"
    /\ \E rc \in ReturnCodes : Call("ReqUserLogin", "script", rc, "", 0, <<>>, <<>>)

\* PyMdApi::SubscribeMarketData(symbols): char* of every symbol, and the count.
SubscribeMarketData ==
    /\ shim = "ctp"
    /\ \E rc \in ReturnCodes, n \in 0..1 :
        Call("SubscribeMarketData", "script", rc, "", n, <<>>, <<>>)

\* The request array PyNsqApi::ReqFutuDepthMarketDataSubscribe builds.
ContractReqs(contracts) ==
    [i \in 1..Len(contracts) |->
        [ExchangeID |-> copy_cstr(ZeroField, FieldSize, contracts[i][1]),
         InstrumentID |-> copy_cstr(ZeroField, FieldSize, contracts[i][2])]]

\* Contract lists the script passes.
ContractLists ==
    {<<>>, << <<<<1>>, <<1>>>> >>, << <<<<1, 1, 1>>, <<>>>> >>,
     << <<<<1>>, <<1>>>>, <<<<>>, <<1, 1>>>> >>}

ReqFutuDepthMarketDataSubscribe ==
    /\ shim = "nsq"
    /\ \E rc \in ReturnCodes, contracts \in ContractLists :
        Call("ReqFutuDepthMarketDataSubscribe", "script", rc, "",
             Len(contracts), ContractReqs(contracts), <<>>)

\* The single request PyNsqApi::SubscribeMarket builds: req{} and ExchangeID.
MarketReq(exchange_id) ==
    [ExchangeID |-> copy_cstr(ZeroField, FieldSize, exchange_id),
     InstrumentID |-> ZeroField]

SubscribeMarket ==
    /\ shim = "nsq"
    /\ \E rc \in ReturnCodes, exchange_id \in Strings :
        Call("SubscribeMarket", "script", rc, "", 0,
             <<MarketReq(exchange_id)>>, exchange_id)

\* PyNsqApi::GetApiErrorMsg: msg ? std::string(msg) : std::string(); the vendor's
\* message is 0 for a null pointer and 1 for a message text.
GetApiErrorMsg ==
    /\ shim = "nsq"
    /\ \E msg \in {0, 1} : Call("GetApiErrorMsg", "script", msg, "", 0, <<>>, <<>>)

\* PyMdApi::GetApiVersion / PyNsqApi::GetApiVersion: the vendor's static function.
GetApiVersion ==
    /\ wrapper.state = "alive"
    /\ Call("GetApiVersion", "script", 1, "", 0, <<>>, <<>>)

\* Names a script may look up on the wrapper that no .def(...) binds.
UnboundNames == {"Join", "Release", "ReleaseApi"}

\* Attribute lookup of a name the class object does not have.
ScriptUnbound ==
    /\ wrapper.state = "alive"
    /\ \E name \in UnboundNames \ Bound(shim) :
        sessLast' = [NoSessCall EXCEPT !.op = name, !.via = "script",
                                       !.outcome = "AttributeError",
                                       !.apiNull = (wrapper.api = NULL),
                                       !.before = wrapper]
    /\ UNCHANGED <<capsules, sdkObj, exLast, shim, wrapper, sdk, spiObj, logVars, fldVars>>

(***************************************************************************)
(* Callback objects (PyMdSpi, PyNsqSpi)                                    *)
(***************************************************************************)
\* The virtual methods each trampoline class overrides.
Callbacks(k) ==
    IF k = "ctp"
    THEN {"OnFrontConnected", "OnFrontDisconnected", "OnRspUserLogin",
          "OnRtnDepthMarketData", "OnRspSubMarketData", "OnRspError"}
    ELSE {"OnFrontConnected", "OnFrontDisconnected", "OnRspUserLogin",
          "OnRspFutuDepthMarketDataSubscribe", "OnRtnFutuDepthMarketData"}

\* The function name each override hands to PYBIND11_OVERLOAD.
OverloadFn_CopyPaste(k, cb) ==
    IF cb = "OnFrontDisconnected" THEN "OnFrontConnected" ELSE cb
OverloadFn(k, cb) ==
    CASE cb = "OnFrontConnected" -> "OnFrontConnected"
      [] cb = "OnFrontDisconnected" -> "OnFrontDisconnected"
      [] cb = "OnRspUserLogin" -> "OnRspUserLogin"
      [] cb = "OnRtnDepthMarketData" -> "OnRtnDepthMarketData"
      [] cb = "OnRspSubMarketData" -> "OnRspSubMarketData"
      [] cb = "OnRspError" -> "OnRspError"
      [] cb = "OnRspFutuDepthMarketDataSubscribe" -> "OnRspFutuDepthMarketDataSubscribe"
      [] cb = "OnRtnFutuDepthMarketData" -> "OnRtnFutuDepthMarketData"

\* PYBIND11_OVERLOAD(void, Base, fn, args...): the script-side override named
\* fn is called with the arguments if the object has one, Base::fn otherwise.
Trampoline(obj, k, cb, arg) ==
    LET fn == OverloadFn(k, cb)
    IN [to |-> IF fn \in obj.overrides THEN "script" ELSE "base",
        call |-> [name |-> fn, arg |-> arg]]

\* The script instantiates CThostFtdcMdSpi / CHSNsqSpi or a subclass of it
\* that overrides the methods in ov.
NewSpi(ov) ==
    /\ spiObj.state = "absent"
    /\ spiObj' = [state |-> "alive", overrides |-> ov]
    /\ UNCHANGED <<capsules, sdkObj, exLast, shim, wrapper, sdk, sessLast, logVars, fldVars>>

NewSpiSubclass == \E ov \in SUBSET Callbacks(shim) : NewSpi(ov)

NewSpiFull ==
    /\ shim \in Shims
    /\ NewSpi(Callbacks(shim))

\* The script drops its last reference to the callback object. RegisterSpi
\* is bound without py::keep_alive, so a registration holds no reference.
DropSpi ==
    /\ spiObj.state = "alive"
    /\ spiObj' = [spiObj EXCEPT !.state = "destroyed"]
    /\ UNCHANGED <<capsules, sdkObj, exLast, shim, wrapper, sdk, sessLast, logVars, fldVars>>

\* The vendor SDK's thread invokes a callback on the registered pointer of a
\* session that was initialised and not released.
SessionCallback ==
    /\ sdk.exists /\ sdk.init /\ sdk.releases = 0
    /\ sdk.spi = "obj"
    /\ \E cb \in Callbacks(shim) :
        sessLast' = [NoSessCall EXCEPT
            !.op = cb, !.via = "sdk",
            !.outcome = IF spiObj.state = "alive" THEN "delivered" ELSE "dangling",
            !.before = wrapper]
    /\ UNCHANGED <<capsules, sdkObj, exLast, shim, wrapper, sdk, spiObj, logVars, fldVars>>

\* Callbacks a trampoline log holds.
MaxCallbacks == 2

\* Values of a callback's argument (nReason, nRequestID, ...).
CallbackArgs == 0..1

\* The SDK invokes virtual method cb on a live trampoline object.
SdkInvoke ==
    /\ spiObj.state = "alive"
    /\ Len(issued) < MaxCallbacks
    /\ \E cb \in Callbacks(shim), arg \in CallbackArgs :
        LET t == Trampoline(spiObj, shim, cb, arg) IN
        /\ issued' = Append(issued, [name |-> cb, arg |-> arg])
        /\ toScript' = IF t.to = "script" THEN Append(toScript, t.call) ELSE toScript
        /\ toBase' = IF t.to = "base" THEN Append(toBase, t.call) ELSE toBase
    /\ UNCHANGED <<capsules, sdkObj, exLast, shim, sessVars, fldVars>>

(***************************************************************************)
(* Login request records (CThostFtdcReqUserLoginField,                     *)
(* CHSNsqReqUserLoginField)                                                *)
(***************************************************************************)
\* The writable char fields, in the order the vendor struct lays them out.
Fields(k) ==
    IF k = "ctp" THEN <<"BrokerID", "UserID", "Password">>
    ELSE <<"AccountID", "Password">>

FieldSet(k) == {Fields(k)[i] : i \in DOMAIN Fields(k)}

FieldIndex(k, f) == CHOOSE i \in DOMAIN Fields(k) : Fields(k)[i] = f

\* py::init<>(): a value-initialised record, every byte zero.
NewRecord(k) == [f \in FieldSet(k) |-> ZeroField]

\* The setter lambda of the field: strncpy(f.X, v.c_str(), sizeof(f.X)) in
\* ctp_pybind, copy_cstr(f.X, sizeof(f.X), v) in nsq_pybind.
Setter(k, buf, v) ==
    IF k = "ctp" THEN Strncpy(buf, v, FieldSize) ELSE copy_cstr(buf, FieldSize, v)

\* The bytes of the record from field f on: the fields after f, and then the
\* fields the shim never writes, which stay zero.
RECURSIVE MemoryFrom(_, _, _)
MemoryFrom(k, rec, i) ==
    IF i > Len(Fields(k)) THEN <<NUL>>
    ELSE rec[Fields(k)[i]] \o MemoryFrom(k, rec, i + 1)

\* The getter lambda: std::string(f.X) reads from the field's first byte up
\* to the first NUL it meets.
Getter(k, rec, f) == CStr(MemoryFrom(k, rec, FieldIndex(k, f)))

NoFieldCall == [op |-> "none", field |-> "", v |-> <<>>, got |-> <<>>]

\* record.X = v
SetField ==
    /\ \E f \in FieldSet(shim), v \in Strings :
        /\ req' = [req EXCEPT ![f] = Setter(shim, req[f], v)]
        /\ fldLast' = [op |-> "set", field |-> f, v |-> v, got |-> <<>>]
    /\ UNCHANGED <<capsules, sdkObj, exLast, shim, sessVars, logVars>>

\* record.X
GetField ==
    /\ \E f \in FieldSet(shim) :
        fldLast' = [op |-> "get", field |-> f, v |-> <<>>, got |-> Getter(shim, req, f)]
    /\ UNCHANGED <<capsules, sdkObj, exLast, shim, sessVars, logVars, req>>

(***************************************************************************)
(* Specifications: one per binding module aspect                           *)
(***************************************************************************)
InitExanic ==
    /\ capsules = <<>>
    /\ sdkObj = <<>>
    /\ exLast = NoCall
    /\ shim = "ctp"
    /\ wrapper = NoWrapper
    /\ sdk = NoSession
    /\ spiObj = NoSpi
    /\ sessLast = NoSessCall
    /\ issued = <<>>
    /\ toScript = <<>>
    /\ toBase = <<>>
    /\ req = NewRecord("ctp")
    /\ fldLast = NoFieldCall

\* The script imports ctp_pybind or nsq_pybind.
InitSession ==
    /\ capsules = <<>>
    /\ sdkObj = <<>>
    /\ exLast = NoCall
    /\ shim \in Shims
    /\ wrapper = NoWrapper
    /\ sdk = NoSession
    /\ spiObj = NoSpi
    /\ sessLast = NoSessCall
    /\ issued = <<>>
    /\ toScript = <<>>
    /\ toBase = <<>>
    /\ req = NewRecord(shim)
    /\ fldLast = NoFieldCall

NextSession ==
    \/ Construct
    \/ Destroy
    \/ RegisterSpi
    \/ RegisterFront
    \/ ApiInit
    \/ Join
    \/ ReqUserLogin
    \/ SubscribeMarketData
    \/ ReqFutuDepthMarketDataSubscribe
    \/ SubscribeMarket
    \/ GetApiErrorMsg
    \/ GetApiVersion
    \/ ScriptUnbound
    \/ NewSpiFull
    \/ DropSpi
    \/ SessionCallback

SpecSession == InitSession /\ [][NextSession]_vars

NextTrampoline ==
    \/ NewSpiSubclass
    \/ SdkInvoke

SpecTrampoline == InitSession /\ [][NextTrampoline]_vars

NextFields ==
    \/ SetField
    \/ GetField

SpecFields == InitSession /\ [][NextFields]_vars

NextExanic ==
    \/ acquire_handle
    \/ acquire_rx_buffer
    \/ receive_frame
    \/ release_rx_buffer
    \/ release_handle

SpecExanic == InitExanic /\ [][NextExanic]_vars

(***************************************************************************)
(* Claims about the ExaNIC shim                                            *)
(***************************************************************************)

\* C1: for any sequence of release_rx_buffer (release_handle) calls on the same
\* capsule, the SDK release function runs at most once on the acquired pointer.
C1_ReleasedAtMostOnce ==
    \A p \in DOMAIN sdkObj : sdkObj[p].releases <= 1

C6_AcquireContract ==
    /\ exLast.op \in {"acquire_handle", "acquire_rx_buffer"} /\ exLast.sdkCalls = 1 =>
         /\ (exLast.outcome = "none") = (exLast.sdkRet = NULL)
         /\ exLast.sdkRet # NULL =>
              /\ exLast.outcome = "capsule"
              /\ capsules[exLast.retCap].pointer = exLast.sdkRet
              /\ capsules[exLast.retCap].name =
                   (IF exLast.op = "acquire_handle" THEN "exanic_t" ELSE "exanic_rx_t")
    /\ exLast.op = "acquire_rx_buffer" =>
         /\ exLast.sdkCalls = 0 => exLast.outcome = "raise"
         /\ exLast.sdkCalls = 1 =>
              /\ exLast.passedKind = "exanic_t"
              /\ exLast.passedReleases = 0

(***************************************************************************)
(* Claims about the CTP and NSQ shims                                      *)
(***************************************************************************)

\* C2: the vendor session is acquired once, by the constructor, and released
\* once, by the destructor: never released twice, never left unreleased once
\* the wrapper is destroyed, and never used after its release.
C2_AcquireReleasePair ==
    /\ sdk.creates = (IF wrapper.state = "absent" THEN 0 ELSE 1)
    /\ sdk.releases <= 1
    /\ (wrapper.state = "destroyed" /\ sdk.exists) => sdk.releases = 1
    /\ sdk.releases = 1 => wrapper.state = "destroyed"
    /\ sdk.afterRelease = 0

\* C2 witness: a session that was created, used and released by the destructor.
C2_Witness ==
    /\ wrapper.state = "destroyed"
    /\ sdk.exists /\ sdk.init /\ sdk.login
    /\ sdk.releases = 1

\* C3: every callback the SDK invokes on a trampoline object reaches the
\* script-side override of the same name with the same arguments, once and in
\* the SDK's order; without an override it reaches the vendor base class.
C3_Forwarding ==
    /\ toScript = SelectSeq(issued, LAMBDA c : c.name \in spiObj.overrides)
    /\ toBase = SelectSeq(issued, LAMBDA c : c.name \notin spiObj.overrides)

\* C3 witness: two callbacks were invoked on an object that overrides one of
\* them and not the other.
C3_Witness ==
    /\ Len(issued) >= 2
    /\ toScript # <<>>
    /\ toBase # <<>>
    /\ issued[1].name # issued[2].name

\* The vendor method behind each lifecycle operation the specification lists:
\* create, register endpoint, initialize, log in, subscribe, release.
LifecycleNames(k) ==
    IF k = "ctp"
    THEN {"__init__", "RegisterFront", "Init", "ReqUserLogin", "SubscribeMarketData",
          "Release"}
    ELSE {"__init__", "RegisterFront", "Init", "ReqUserLogin",
          "ReqFutuDepthMarketDataSubscribe", "ReleaseApi"}

\* C4 as stated: every lifecycle operation, release included, is a method
\* bound on the wrapper class, so a script call of it never fails for want of
\* the attribute.
C4_AllLifecycleBound ==
    (sessLast.via = "script" /\ sessLast.op \in LifecycleNames(shim))
        => sessLast.outcome # "AttributeError"

\* C4 as amended: create, register endpoint, initialize, log in and subscribe
\* are bound methods; release is not: looking it up fails, and the vendor's
\* release call is made only by the destructor when the wrapper is dropped.
C4_LifecycleExposed ==
    /\ (sessLast.via = "script"
        /\ sessLast.op \in LifecycleNames(shim) \ {"Release", "ReleaseApi"})
          => sessLast.outcome = "returned"
    /\ (sessLast.via = "script" /\ sessLast.op \in {"Release", "ReleaseApi"})
          => sessLast.outcome = "AttributeError"
    /\ sessLast.vendor \in {"Release", "ReleaseApi"}
          => (sessLast.op = "__del__" /\ sessLast.via = "gc")

\* C4 witness: the script drove a session through every stage and released it.
C4_Witness ==
    /\ sdk.exists /\ sdk.front /\ sdk.init /\ sdk.login /\ sdk.sub
    /\ sdk.releases = 1
    /\ sessLast.vendor \in {"Release", "ReleaseApi"}

\* exchange_id truncated to fit a field of FieldSize bytes.
Fit(v) == IF Len(v) < FieldSize THEN v ELSE SubSeq(v, 1, FieldSize - 1)

\* v followed by NULs up to FieldSize bytes.
Padded(v) == [i \in 1..FieldSize |-> IF i <= Len(v) THEN v[i] ELSE NUL]

\* C7 as stated: SubscribeMarket on a live session makes one vendor
\* ReqFutuDepthMarketDataSubscribe call with nCount = 0 and one request whose
\* ExchangeID is exchange_id truncated to fit and whose InstrumentID is empty,
\* and returns the vendor's return code.
C7_SubscribeMarketAsStated ==
    (sessLast.op = "SubscribeMarket" /\ ~sessLast.apiNull) =>
        /\ sessLast.vendor = "ReqFutuDepthMarketDataSubscribe"
        /\ sessLast.nCount = 0
        /\ Len(sessLast.reqs) = 1
        /\ CStr(sessLast.reqs[1].ExchangeID) = Fit(sessLast.arg)
        /\ CStr(sessLast.reqs[1].InstrumentID) = <<>>
        /\ sessLast.ret = sessLast.rc

\* C7 as amended: the ExchangeID is the part of exchange_id before its first
\* NUL character (all of it when it has none), truncated to fit and followed
\* by NULs; the rest as stated.
C7_SubscribeMarket ==
    (sessLast.op = "SubscribeMarket" /\ ~sessLast.apiNull) =>
        /\ sessLast.vendor = "ReqFutuDepthMarketDataSubscribe"
        /\ sessLast.nCount = 0
        /\ Len(sessLast.reqs) = 1
        /\ sessLast.reqs[1].ExchangeID = Padded(Fit(CStr(sessLast.arg)))
        /\ sessLast.reqs[1].InstrumentID = [i \in 1..FieldSize |-> NUL]
        /\ sessLast.retKind = "int"
        /\ sessLast.ret = sessLast.rc

\* C7 witness: a live session subscribed a market whose exchange id had to be
\* truncated, and the vendor accepted.
C7_Witness ==
    /\ sessLast.op = "SubscribeMarket"
    /\ ~sessLast.apiNull
    /\ Len(CStr(sessLast.arg)) >= FieldSize
    /\ sessLast.ret = 0
    /\ sdk.sub

\* C8: on a wrapper whose session pointer is null no session method reaches
\* the vendor: the int methods return -1, GetApiErrorMsg the empty string,
\* the void methods do nothing; wrapper and session are left as they were and
\* the destructor makes no release call. (GetApiVersion is the vendor's static
\* function, not a session method.)
C8_NullSession ==
    /\ (sessLast.apiNull /\ sessLast.via \in {"script", "c++"}
        /\ sessLast.outcome = "returned" /\ sessLast.op # "GetApiVersion") =>
          /\ sessLast.vendor = ""
          /\ wrapper = sessLast.before
          /\ sdk = [creates |-> 1, exists |-> FALSE, releases |-> 0, afterRelease |-> 0,
                    spi |-> "none", front |-> FALSE, init |-> FALSE, login |-> FALSE,
                    sub |-> FALSE]
          /\ IF shim = "ctp"
             THEN /\ sessLast.op \in {"Join", "ReqUserLogin", "SubscribeMarketData"}
                       => (sessLast.retKind = "int" /\ sessLast.ret = -1)
                  /\ sessLast.op \in {"RegisterSpi", "RegisterFront", "Init"}
                       => sessLast.retKind = "None"
             ELSE /\ sessLast.op \in {"RegisterFront", "Init", "ReqUserLogin",
                                      "ReqFutuDepthMarketDataSubscribe", "SubscribeMarket"}
                       => (sessLast.retKind = "int" /\ sessLast.ret = -1)
                  /\ sessLast.op = "GetApiErrorMsg"
                       => (sessLast.retKind = "str" /\ sessLast.ret = 0)
                  /\ sessLast.op = "RegisterSpi" => sessLast.retKind = "None"
    /\ (sessLast.op = "__del__" /\ sessLast.apiNull) => sessLast.vendor = ""
    /\ ~sdk.exists => sdk.releases = 0

\* C8 witness: a wrapper whose creation failed was asked to subscribe and was
\* then destroyed.
C8_Witness ==
    /\ sessLast.op = "__del__"
    /\ sessLast.apiNull
    /\ sdk.creates = 1
    /\ ~sdk.exists

Range(v) == {v[i] : i \in DOMAIN v}

\* C9: for every input string v (here: every v without a NUL character),
\* after the setter the field holds a NUL within its size, the getter returns
\* v when len(v) is below the size and v cut to size - 1 characters otherwise,
\* and the getter reads nothing beyond the field.
C9_SetterGetter ==
    (fldLast.op = "set" /\ NUL \notin Range(fldLast.v)) =>
        /\ \E i \in 1..FieldSize : req[fldLast.field][i] = NUL
        /\ Getter(shim, req, fldLast.field) = Fit(fldLast.v)
        /\ Len(Getter(shim, req, fldLast.field)) < FieldSize

\* C10: the SDK never delivers a callback to a destroyed callback object.
C10_NoCallbackOnDestroyed ==
    sessLast.via = "sdk" => sessLast.outcome = "delivered"

====
